---- MODULE Spec2Model ----
(***************************************************************************)
(* A model of harness/sfwa_harness.py, the SFWA-ABI v1 compliance harness: *)
(* check_html (the structural checker), check_js (the bridge to the        *)
(* external node checker) and main (the orchestrator).                     *)
(*                                                                         *)
(* Text is a sequence of pieces.  Text that comes from the spec file, the  *)
(* document or the subprocess is written character by character; the text  *)
(* of a message literal of the code is one piece.  Python values are       *)
(* tagged records, so that values of different Python types compare        *)
(* unequal.                                                                *)
(***************************************************************************)
EXTENDS Integers, Sequences, FiniteSets, TLC

VARIABLES
    mode,       \* args.mode
    json_flag,  \* args.json
    spec_file,  \* the file at args.spec: whether it loads, and the dict it holds
    html_file,  \* the file at args.html: whether it can be read, and its text
    proc,       \* how the node runtime and the external checker behave
    pc,         \* the position of the run
    r,          \* the outcome of the last call of check_html or check_js
    results,    \* report["results"]
    overall_ok, \* main's overall_ok
    exit_code,  \* the process's exit status, NotExited while it runs
    calls       \* the files opened, subprocesses run and outputs parsed, in order

vars == <<mode, json_flag, spec_file, html_file, proc, pc, r, results, overall_ok, exit_code,
          calls>>

----------------------------------------------------------------------------
(* Bounds of the model.                                                    *)

MaxIds == 2
MaxElems == 2
MaxSelectors == 1
MaxDataAttrs == 1

SeqsUpTo(S, n) == UNION {[1..k -> S] : k \in 0..n}

----------------------------------------------------------------------------
(* Python values.                                                          *)

PyNone == [t |-> "none"]
PyBool(b) == [t |-> "bool", b |-> b]
PyInt(n) == [t |-> "int", n |-> n]
PyStr(s) == [t |-> "str", s |-> s]
PyList(xs) == [t |-> "list", xs |-> xs]
PyDict(m) == [t |-> "dict", m |-> m]

EmptyMap == [k \in {} |-> PyNone]
EmptyDict == PyDict(EmptyMap)

\* bool(v), the truth value `or` and `if` test
Truthy(v) ==
    CASE v.t = "none" -> FALSE
      [] v.t = "bool" -> v.b
      [] v.t = "int"  -> v.n # 0
      [] v.t = "str"  -> Len(v.s) > 0
      [] v.t = "list" -> Len(v.xs) > 0
      [] v.t = "dict" -> DOMAIN v.m # {}

\* d.get(k): the value at k, None when k is absent
DictGet(d, k) == IF k \in DOMAIN d.m THEN d.m[k] ELSE PyNone

\* a or b
PyOr(a, b) == IF Truthy(a) THEN a ELSE b

----------------------------------------------------------------------------
(* Text.                                                                   *)

IsSpace(c) == c \in {" ", "\n"}

RECURSIVE LStrip(_)
LStrip(s) == IF s # <<>> /\ IsSpace(Head(s)) THEN LStrip(Tail(s)) ELSE s

RECURSIVE RStrip(_)
RStrip(s) ==
    IF s # <<>> /\ IsSpace(s[Len(s)]) THEN RStrip(SubSeq(s, 1, Len(s) - 1)) ELSE s

\* str.strip()
Strip(s) == RStrip(LStrip(s))

\* sep.join(parts)
RECURSIVE Join(_, _)
Join(parts, sep) ==
    IF parts = <<>> THEN <<>>
    ELSE IF Len(parts) = 1 THEN parts[1]
    ELSE parts[1] \o sep \o Join(Tail(parts), sep)

UpperLetters ==
    <<"A","B","C","D","E","F","G","H","I","J","K","L","M",
      "N","O","P","Q","R","S","T","U","V","W","X","Y","Z">>
LowerLetters ==
    <<"a","b","c","d","e","f","g","h","i","j","k","l","m",
      "n","o","p","q","r","s","t","u","v","w","x","y","z">>

\* XPath translate(s, from, to) with from and to of equal length
Translate(s, from, to) ==
    [i \in 1..Len(s) |->
        IF \E j \in 1..Len(from) : from[j] = s[i]
        THEN to[CHOOSE j \in 1..Len(from) : from[j] = s[i]]
        ELSE s[i]]

S_id == <<"i","d">>
S_title == <<"t","i","t","l","e">>
S_meta == <<"m","e","t","a">>
S_charset == <<"c","h","a","r","s","e","t">>
S_name == <<"n","a","m","e">>
S_viewport == <<"v","i","e","w","p","o","r","t">>
S_div == <<"d","i","v">>

Sel_title == S_title
Sel_charset == S_meta \o <<"[">> \o S_charset \o <<"]">>
Sel_viewport_sq == S_meta \o <<"[">> \o S_name \o <<"=", "'">> \o S_viewport \o <<"'", "]">>
Sel_viewport_dq == S_meta \o <<"[">> \o S_name \o <<"=", "\"">> \o S_viewport \o <<"\"", "]">>

----------------------------------------------------------------------------
(* The document: lxml_html.fromstring and doc.xpath.                       *)

\* An element of the document text: a tag and its attributes as written.
Elem(tag, attrs) == [tag |-> tag, attrs |-> attrs]
Attr(name, value) == [name |-> name, value |-> value]

\* What CheckResult and an exception propagating out of a function look like.
Returned(ok, errors, details) ==
    [kind |-> "returned", ok |-> ok, errors |-> errors, details |-> details]
Raised(exc) == [kind |-> "raised", exc |-> exc]
NoCall == [kind |-> "none"]

\* lxml_html.fromstring raises on a document without any element
\* (ParserError: Document is empty) and on a str that carries an encoding
\* declaration (ValueError).
ParseFails(text) == text.decl \/ text.elems = <<>>

ParseErrorText(text) ==
    IF text.decl
    THEN <<"Unicode strings with encoding declaration are not supported.">>
    ELSE <<"Document is empty">>

\* The HTML parser folds element and attribute names to lower case and keeps
\* attribute values as written.
fromstring(text) ==
    [i \in 1..Len(text.elems) |->
        Elem(Translate(text.elems[i].tag, UpperLetters, LowerLetters),
             [j \in 1..Len(text.elems[i].attrs) |->
                 Attr(Translate(text.elems[i].attrs[j].name, UpperLetters, LowerLetters),
                      text.elems[i].attrs[j].value)])]

HasAttr(e, name) == \E j \in 1..Len(e.attrs) : e.attrs[j].name = name

\* the value of the first attribute of that name
AttrValue(e, name) ==
    LET j == CHOOSE k \in 1..Len(e.attrs) :
                 /\ e.attrs[k].name = name
                 /\ \A l \in 1..(k - 1) : e.attrs[l].name # name
    IN e.attrs[j].value

\* A string put between single quotes in an XPath expression is a literal
\* only when it holds no single quote: the quote ends the literal, and over
\* the characters of the pools below what follows is never an operator, so
\* the expression does not compile.
XPathLiteralOk(v) == \A i \in 1..Len(v) : v[i] # "'"

\* A string put after @ is an attribute name test only when it is a name.
XPathNameOk(n) == n # <<>> /\ \A i \in 1..Len(n) : n[i] \notin {"'", "\"", " ", "\n", "=", "[", "]"}

AnyTag == <<"*">>

\* f"//*[@id='{idv}']"
XPathId(idv) ==
    [valid |-> XPathLiteralOk(idv), tag |-> AnyTag, attr |-> S_id, cmp |-> "eq", value |-> idv]
\* "//title"
XPathTitle ==
    [valid |-> TRUE, tag |-> S_title, attr |-> <<>>, cmp |-> "element", value |-> <<>>]
\* "//meta[@charset]"
XPathMetaCharset ==
    [valid |-> TRUE, tag |-> S_meta, attr |-> S_charset, cmp |-> "has", value |-> <<>>]
\* "//meta[translate(@name,'ABC...','abc...')='viewport']"
XPathMetaViewport ==
    [valid |-> TRUE, tag |-> S_meta, attr |-> S_name, cmp |-> "eq_translated", value |-> S_viewport]
\* f"//*[@{name}='{v}']"
XPathDataAttr(name, v) ==
    [valid |-> XPathNameOk(name) /\ XPathLiteralOk(v),
     tag |-> AnyTag, attr |-> name, cmp |-> "eq", value |-> v]

XPathMatches(e, q) ==
    /\ q.tag = AnyTag \/ e.tag = q.tag
    /\ CASE q.cmp = "element" -> TRUE
         [] q.cmp = "has" -> HasAttr(e, q.attr)
         [] q.cmp = "eq" -> HasAttr(e, q.attr) /\ AttrValue(e, q.attr) = q.value
         [] q.cmp = "eq_translated" ->
                \* translate() of an empty node-set is "", which is not 'viewport'
                /\ HasAttr(e, q.attr)
                /\ Translate(AttrValue(e, q.attr), UpperLetters, LowerLetters) = q.value

\* len(doc.xpath(xpath)); defined for an expression that compiles
_xpath_count(doc, q) == Cardinality({i \in 1..Len(doc) : XPathMatches(doc[i], q)})

----------------------------------------------------------------------------
(* check_html.                                                             *)

\* The required ids with no element, in the spec's order (a string that breaks
\* the expression is not counted here: the call raises before).
MissingIds(doc, ids) ==
    LET IsMissing(idv) == _xpath_count(doc, XPathId(idv)) = 0
    IN SelectSeq(ids, IsMissing)

\* The required ids with more than one element, each with its count.
DuplicateIds(doc, ids) ==
    LET IsDupe(idv) == _xpath_count(doc, XPathId(idv)) > 1
        d == SelectSeq(ids, IsDupe)
    IN [i \in 1..Len(d) |-> <<d[i], _xpath_count(doc, XPathId(d[i]))>>]

\* f"{i} (count={n})"
DupeText(d) == d[1] \o <<" (count=", ToString(d[2]), ")">>

IsViewportSelector(sel) == sel \in {Sel_viewport_sq, Sel_viewport_dq}

IsRecognizedSelector(sel) ==
    sel = Sel_title \/ sel = Sel_charset \/ IsViewportSelector(sel)

\* The stripped selectors the code recognizes and does not find, the viewport
\* selector always in its single-quoted spelling.
MissingSelectors(doc, selectors) ==
    LET stripped == [i \in 1..Len(selectors) |-> Strip(selectors[i])]
        IsMissing(sel) ==
            \/ sel = Sel_title /\ _xpath_count(doc, XPathTitle) = 0
            \/ sel = Sel_charset /\ _xpath_count(doc, XPathMetaCharset) = 0
            \/ IsViewportSelector(sel) /\ _xpath_count(doc, XPathMetaViewport) = 0
        miss == SelectSeq(stripped, IsMissing)
    IN [i \in 1..Len(miss) |->
           IF IsViewportSelector(miss[i]) THEN Sel_viewport_sq ELSE miss[i]]

UnsupportedSelectors(selectors) ==
    LET stripped == [i \in 1..Len(selectors) |-> Strip(selectors[i])]
        IsUnsupported(sel) == ~IsRecognizedSelector(sel)
    IN SelectSeq(stripped, IsUnsupported)

\* `if not name or not values: continue`
IsEnforcedEntry(da) == da.name # <<>> /\ da.values # <<>>

\* The (name, value) pairs the loop evaluates, in its order.
RECURSIVE EnforcedPairs(_)
EnforcedPairs(data_attrs) ==
    IF data_attrs = <<>> THEN <<>>
    ELSE LET da == Head(data_attrs)
         IN (IF IsEnforcedEntry(da)
             THEN [i \in 1..Len(da.values) |-> <<da.name, da.values[i]>>]
             ELSE <<>>) \o EnforcedPairs(Tail(data_attrs))

\* f"{name}={v}"
PairText(pv) == pv[1] \o <<"=">> \o pv[2]

MissingPairs(doc, data_attrs) ==
    LET IsMissing(pv) == _xpath_count(doc, XPathDataAttr(pv[1], pv[2])) = 0
        miss == SelectSeq(EnforcedPairs(data_attrs), IsMissing)
    IN [i \in 1..Len(miss) |-> PairText(miss[i])]

FoundPairs(doc, data_attrs) ==
    LET IsFound(pv) == _xpath_count(doc, XPathDataAttr(pv[1], pv[2])) # 0
        found == SelectSeq(EnforcedPairs(data_attrs), IsFound)
    IN [i \in 1..Len(found) |-> PairText(found[i])]

\* An expression the loops evaluate does not compile: doc.xpath raises
\* XPathEvalError, which nothing in check_html catches.
XPathRaises(ids, data_attrs) ==
    \/ \E i \in 1..Len(ids) : ~XPathId(ids[i]).valid
    \/ \E i \in 1..Len(EnforcedPairs(data_attrs)) :
          ~XPathDataAttr(EnforcedPairs(data_attrs)[i][1], EnforcedPairs(data_attrs)[i][2]).valid

Comma == <<",", " ">>

\* The error lines, in the order the code appends them.
HtmlErrors(missing, dupes, sel_missing, da_missing) ==
    (IF missing # <<>>
     THEN << <<"Missing required id(s): ">> \o Join(missing, Comma) >> ELSE <<>>)
    \o (IF dupes # <<>>
        THEN << <<"Duplicate id(s) found: ">>
                \o Join([i \in 1..Len(dupes) |-> DupeText(dupes[i])], Comma) >>
        ELSE <<>>)
    \o (IF sel_missing # <<>>
        THEN << <<"Missing required selector(s): ">> \o Join(sel_missing, Comma) >> ELSE <<>>)
    \o (IF da_missing # <<>>
        THEN << <<"Missing required data-attribute instance(s): ">> \o Join(da_missing, Comma) >>
        ELSE <<>>)

StrList(lines) == PyList([i \in 1..Len(lines) |-> PyStr(lines[i])])

\* spec is the dict of the spec file; an absent or null "html", "requires",
\* "ids", "selectors" or "dataAttributes" reads as empty (`or {}`, `or []`).
check_html(spec, html_text) ==
    IF ParseFails(html_text)
    THEN Returned(FALSE,
                  StrList(<< <<"HTML parse error: ">> \o ParseErrorText(html_text) >>),
                  EmptyDict)
    ELSE IF XPathRaises(spec.ids, spec.dataAttributes)
    THEN Raised("XPathEvalError")
    ELSE LET doc == fromstring(html_text)
             missing == MissingIds(doc, spec.ids)
             dupes == DuplicateIds(doc, spec.ids)
             sel_missing == MissingSelectors(doc, spec.selectors)
             unsupported == UnsupportedSelectors(spec.selectors)
             da_missing == MissingPairs(doc, spec.dataAttributes)
             enforced == FoundPairs(doc, spec.dataAttributes)
             errs == HtmlErrors(missing, dupes, sel_missing, da_missing)
         IN Returned(Len(errs) = 0,
                     StrList(errs),
                     PyDict([requiredIds |->
                                 [count |-> Len(spec.ids), missing |-> missing,
                                  duplicates |-> dupes],
                             requiredSelectors |->
                                 [count |-> Len(spec.selectors), missing |-> sel_missing,
                                  unsupported |-> unsupported],
                             dataAttributes |->
                                 [enforced |-> enforced, missing |-> da_missing]]))

----------------------------------------------------------------------------
(* JSON text, as the external checker writes it and json.loads reads it.   *)

Absent == [t |-> "absent"]

\* A dict holding the given values at the keys whose value is not Absent.
DictOf(pairs) ==
    PyDict([k \in {k \in DOMAIN pairs : pairs[k] # Absent} |-> pairs[k]])

S_boom == <<"b","o","o","m">>

OkChoices ==
    {Absent, PyBool(TRUE), PyBool(FALSE), PyNone, PyInt(0), PyStr(<<"n","o">>)}
ErrorsChoices ==
    {Absent, PyList(<<>>), PyList(<<PyStr(S_boom)>>), PyList(<<PyStr(<<>>)>>), PyInt(5)}
DetailsChoices ==
    {Absent, EmptyDict, PyDict([k |-> PyInt(1)]), PyList(<<PyInt(1)>>)}

JsonObjects ==
    {DictOf([ok |-> o, errors |-> e, details |-> d]) :
        o \in OkChoices, e \in ErrorsChoices, d \in DetailsChoices}

\* The JSON documents of the model: objects, and values that are not objects.
JsonPool == JsonObjects \cup {PyNone, PyList(<<>>), PyInt(1)}

KeyOrder == <<"ok", "errors", "details", "k">>

\* The text of a JSON value (strings of the pool need no escape).
RECURSIVE Dumps(_)
Dumps(v) ==
    CASE v.t = "none" -> <<"n","u","l","l">>
      [] v.t = "bool" -> IF v.b THEN <<"t","r","u","e">> ELSE <<"f","a","l","s","e">>
      [] v.t = "int"  -> <<ToString(v.n)>>
      [] v.t = "str"  -> <<"\"">> \o v.s \o <<"\"">>
      [] v.t = "list" ->
            <<"[">> \o Join([i \in 1..Len(v.xs) |-> Dumps(v.xs[i])], <<",">>) \o <<"]">>
      [] v.t = "dict" ->
            LET InDict(k) == k \in DOMAIN v.m
                keys == SelectSeq(KeyOrder, InDict)
            IN <<"{">>
               \o Join([i \in 1..Len(keys) |->
                           <<"\"", keys[i], "\"", ":">> \o Dumps(v.m[keys[i]])], <<",">>)
               \o <<"}">>

JsonTexts == [v \in JsonPool |-> Dumps(v)]

\* json.loads accepts a JSON document with white space around it.
IsJson(text) == \E v \in JsonPool : JsonTexts[v] = Strip(text)
JsonLoads(text) == CHOOSE v \in JsonPool : JsonTexts[v] = Strip(text)

----------------------------------------------------------------------------
(* check_js.                                                               *)

StdoutCap == 4000

\* s[:n]
Prefix(s, n) == SubSeq(s, 1, IF Len(s) < n THEN Len(s) ELSE n)

\* Mutant: `except FileNotFoundError`, a probe that exits non-zero goes on.
ProbeFails_NotFoundOnly(p) == p.probe = "FileNotFoundError"

\* subprocess.run(["node", "--version"], check=True) raises when node is not
\* found (FileNotFoundError) or exits non-zero (CalledProcessError).
ProbeFails(p) == p.probe # "ok"

\* the second subprocess.run raises (the script cannot be started or its
\* output cannot be decoded)
LaunchFails(p) == ~p.launch_ok

\* Mutant: (p.stdout or p.stderr), the output preferred to the diagnostics.
InternalErrorText_StdoutFirst(p) ==
    <<"JS harness internal error:\n">> \o (IF p.stdout # <<>> THEN p.stdout ELSE p.stderr)

\* "JS harness internal error:\n" + (p.stderr or p.stdout)
InternalErrorText(p) ==
    <<"JS harness internal error:\n">> \o (IF p.stderr # <<>> THEN p.stderr ELSE p.stdout)

GenericJsError == <<"JS compliance failed.">>

\* bool(payload.get("ok"))
PayloadOk(payload) == Truthy(DictGet(payload, "ok"))

\* payload.get("errors") or ([] if ok else ["JS compliance failed."])
PayloadErrors(payload, ok) ==
    PyOr(DictGet(payload, "errors"),
         IF ok THEN PyList(<<>>) ELSE StrList(<<GenericJsError>>))

\* payload.get("details") or {}
PayloadDetails(payload) == PyOr(DictGet(payload, "details"), EmptyDict)

\* details["stderr"] = p.stderr.strip()
SetStderr(details, p) == PyDict(("stderr" :> PyStr(Strip(p.stderr))) @@ details.m)

\* lines 147-153: the payload has been parsed
FromPayload(payload, p) ==
    IF payload.t # "dict"
    THEN Raised("AttributeError")            \* payload.get on a list, None, a number
    ELSE IF Strip(p.stderr) # <<>> /\ PayloadDetails(payload).t # "dict"
    THEN Raised("TypeError")                 \* item assignment on a list
    ELSE Returned(PayloadOk(payload),
                  PayloadErrors(payload, PayloadOk(payload)),
                  IF Strip(p.stderr) # <<>>
                  THEN SetStderr(PayloadDetails(payload), p)
                  ELSE PayloadDetails(payload))

\* Each step of check_js gives the outcome and what it ran or parsed to get it.
Did(what, res) == [calls |-> what, res |-> res]

\* lines 137-153: the external checker has run
FromProcess(p) ==
    IF p.returncode = 2
    THEN Did(<<>>, Returned(FALSE, StrList(<<InternalErrorText(p)>>), EmptyDict))
    ELSE IF Strip(p.stdout) = <<>>
    THEN Did(<<>>,
             Returned(FALSE,
                      StrList(<< <<"JS harness produced no output.">>, Strip(p.stderr) >>),
                      EmptyDict))
    ELSE IF ~IsJson(p.stdout)
    THEN Did(<<"json.loads">>,
             Returned(FALSE,
                      StrList(<< <<"JS harness output was not valid JSON: ", "JSONDecodeError">>,
                                 Prefix(p.stdout, StdoutCap) >>),
                      PyDict([stderr |-> PyStr(p.stderr)])))
    ELSE Did(<<"json.loads">>, FromPayload(JsonLoads(p.stdout), p))

check_js(p) ==
    IF ProbeFails(p)
    THEN Did(<<"node --version">>,
             Returned(FALSE, StrList(<< <<"Node.js not available: ", p.probe>> >>), EmptyDict))
    ELSE IF LaunchFails(p)
    THEN Did(<<"node --version", "node harness">>,
             Returned(FALSE,
                      StrList(<< <<"Failed to execute JS harness: ", "OSError">> >>),
                      EmptyDict))
    ELSE Did(<<"node --version", "node harness">> \o FromProcess(p).calls,
             FromProcess(p).res)

----------------------------------------------------------------------------
(* main.                                                                   *)

NotExited == -1

S_abi1 == <<"s","f","w","a","-","a","b","i","-","1">>

\* Mutant: spec.get("abi", "sfwa-abi-1"), a spec without abi passes.
AbiSupported_AbsentPasses(spec) == spec.abi \in {PyNone, PyStr(S_abi1)}

\* spec.get("abi") != "sfwa-abi-1" is what rejects the spec
AbiSupported(spec) == spec.abi = PyStr(S_abi1)

\* args.mode in ("html", "all")
IncludesHtml(m) == m \in {"html", "all"}
\* args.mode in ("js", "all")
IncludesJs(m) == m \in {"js", "all"}

\* overall_ok and r.ok
AndOk(overall, ok) == overall /\ ok

\* sys.exit(0 if overall_ok else 1)
ExitStatus(overall) == IF overall THEN 0 ELSE 1

\* `for e in h["errors"]` raises TypeError on a value that is not iterable
Iterable(v) == v.t \in {"list", "str", "dict"}

\* report["results"][kind] = {"ok": r.ok, "errors": r.errors, "details": r.details}
WithResult(res, kind, cr) ==
    (kind :> [ok |-> cr.ok, errors |-> cr.errors, details |-> cr.details]) @@ res

\* An exception nothing catches ends the process with a traceback, status 1.
Uncaught ==
    /\ pc' = "crashed"
    /\ exit_code' = 1

\* lines 164-168
ReadSpec ==
    /\ pc = "read_spec"
    /\ calls' = Append(calls, "open spec")
    /\ IF spec_file.readable
       THEN pc' = "check_abi" /\ exit_code' = exit_code
       ELSE pc' = "exited" /\ exit_code' = 2
    /\ UNCHANGED <<mode, json_flag, spec_file, html_file, proc, r, results, overall_ok>>

\* lines 170-172
CheckAbi ==
    /\ pc = "check_abi"
    /\ IF AbiSupported(spec_file.spec)
       THEN pc' = "read_html" /\ exit_code' = exit_code
       ELSE pc' = "exited" /\ exit_code' = 2
    /\ UNCHANGED <<mode, json_flag, spec_file, html_file, proc, r, results, overall_ok, calls>>

\* lines 174-187
ReadHtml ==
    /\ pc = "read_html"
    /\ calls' = Append(calls, "open html")
    /\ IF html_file.readable
       THEN pc' = "check_html" /\ exit_code' = exit_code
       ELSE pc' = "exited" /\ exit_code' = 2
    /\ UNCHANGED <<mode, json_flag, spec_file, html_file, proc, r, results, overall_ok>>

\* lines 189-192
RunCheckHtml ==
    /\ pc = "check_html"
    /\ IF IncludesHtml(mode)
       THEN LET cr == check_html(spec_file.spec, html_file.text)
            IN /\ r' = cr
               /\ calls' = Append(calls, "check_html")
               /\ IF cr.kind = "raised"
                  THEN Uncaught /\ UNCHANGED <<results, overall_ok>>
                  ELSE /\ results' = WithResult(results, "html", cr)
                       /\ overall_ok' = AndOk(overall_ok, cr.ok)
                       /\ pc' = "check_js"
                       /\ exit_code' = exit_code
       ELSE pc' = "check_js" /\ UNCHANGED <<r, results, overall_ok, exit_code, calls>>
    /\ UNCHANGED <<mode, json_flag, spec_file, html_file, proc>>

\* lines 194-197
RunCheckJs ==
    /\ pc = "check_js"
    /\ IF IncludesJs(mode)
       THEN LET did == check_js(proc)
            IN /\ r' = did.res
               /\ calls' = Append(calls, "check_js") \o did.calls
               /\ IF did.res.kind = "raised"
                  THEN Uncaught /\ UNCHANGED <<results, overall_ok>>
                  ELSE /\ results' = WithResult(results, "js", did.res)
                       /\ overall_ok' = AndOk(overall_ok, did.res.ok)
                       /\ pc' = "report"
                       /\ exit_code' = exit_code
       ELSE pc' = "report" /\ UNCHANGED <<r, results, overall_ok, exit_code, calls>>
    /\ UNCHANGED <<mode, json_flag, spec_file, html_file, proc>>

\* lines 199-215
Report ==
    /\ pc = "report"
    /\ IF ~json_flag /\ \E k \in DOMAIN results : ~Iterable(results[k].errors)
       THEN Uncaught
       ELSE pc' = "exited" /\ exit_code' = ExitStatus(overall_ok)
    /\ UNCHANGED <<mode, json_flag, spec_file, html_file, proc, r, results, overall_ok, calls>>

Next == ReadSpec \/ CheckAbi \/ ReadHtml \/ RunCheckHtml \/ RunCheckJs \/ Report

----------------------------------------------------------------------------
(* The inputs of a run.                                                    *)

S_x == <<"x">>
S_y == <<"y">>
S_v == <<"v">>
S_w == <<"w">>
S_its == <<"i","t","'","s">>
S_data_k == <<"d","a","t","a","-","k">>
S_warn == <<"w","a","r","n">>

IdPool == {S_x, S_y, S_its}

SelectorPool ==
    {Sel_title, <<" ">> \o Sel_title \o <<"\n">>, Sel_charset, Sel_viewport_sq,
     Sel_viewport_dq, <<"h","1">>}

DataAttrPool ==
    {[name |-> <<>>, values |-> <<S_v>>],
     [name |-> S_data_k, values |-> <<>>],
     [name |-> S_data_k, values |-> <<S_v>>],
     [name |-> S_data_k, values |-> <<S_v, S_w>>],
     [name |-> S_data_k, values |-> <<S_its>>]}

ElemPool ==
    {Elem(S_div, <<Attr(S_id, S_x)>>),
     Elem(S_div, <<Attr(S_id, S_its)>>),
     Elem(<<"T","I","T","L","E">>, <<>>),
     Elem(S_meta, <<Attr(S_charset, <<"u","t","f","8">>)>>),
     Elem(<<"M","E","T","A">>, <<Attr(<<"N","a","m","e">>, <<"V","i","e","w","p","o","r","t">>)>>),
     Elem(S_div, <<Attr(S_data_k, S_v)>>)}

SpecDict(abi, ids, selectors, data_attrs) ==
    [abi |-> abi, ids |-> ids, selectors |-> selectors, dataAttributes |-> data_attrs]

HtmlText(decl, elems) == [decl |-> decl, elems |-> elems]

\* The specs and documents check_html is applied to.
HtmlSpecs ==
    {SpecDict(PyStr(S_abi1), ids, sels, das) :
        ids \in SeqsUpTo(IdPool, MaxIds),
        sels \in SeqsUpTo(SelectorPool, MaxSelectors),
        das \in SeqsUpTo(DataAttrPool, MaxDataAttrs)}

HtmlTexts ==
    {HtmlText(FALSE, elems) : elems \in SeqsUpTo(ElemPool, MaxElems)}
    \cup {HtmlText(TRUE, <<Elem(S_div, <<Attr(S_id, S_x)>>)>>)}

\* What the node runtime and the external checker do.
Proc(probe, launch_ok, returncode, stdout, stderr) ==
    [probe |-> probe, launch_ok |-> launch_ok, returncode |-> returncode,
     stdout |-> stdout, stderr |-> stderr]

Probes == {"ok", "FileNotFoundError", "CalledProcessError"}

\* console.log ends the payload with a newline
Stdouts ==
    {JsonTexts[v] \o <<"\n">> : v \in JsonPool}
    \cup {<<>>, <<" ", "\n">>, <<"o","o","p","s">>, <<"{">>}

Stderrs == {<<>>, <<" ">>, S_warn}

Procs ==
    {Proc(pr, l, rc, out, err) :
        pr \in Probes, l \in BOOLEAN, rc \in {0, 1, 2}, out \in Stdouts, err \in Stderrs}

\* The inputs of whole runs: fewer of each kind, every kind present.
MainSpecs ==
    {SpecDict(abi, req[1], req[2], <<>>) :
        abi \in {PyNone, PyStr(S_abi1), PyStr(<<"s","f","w","a","-","a","b","i","-","2">>)},
        req \in {<< <<>>, <<>> >>, << <<S_x>>, <<Sel_title>> >>, << <<S_its>>, <<>> >>}}

MainTexts ==
    {HtmlText(FALSE, <<>>),
     HtmlText(FALSE, <<Elem(S_div, <<Attr(S_id, S_x)>>), Elem(S_title, <<>>)>>),
     HtmlText(FALSE, <<Elem(S_div, <<Attr(S_id, S_its)>>)>>)}

MainStdouts ==
    {JsonTexts[v] \o <<"\n">> :
        v \in {DictOf([ok |-> PyBool(TRUE), errors |-> Absent, details |-> Absent]),
               DictOf([ok |-> PyBool(FALSE), errors |-> Absent, details |-> Absent]),
               DictOf([ok |-> PyBool(TRUE), errors |-> PyInt(5), details |-> Absent]),
               DictOf([ok |-> PyBool(TRUE), errors |-> Absent,
                       details |-> PyList(<<PyInt(1)>>)]),
               PyList(<<>>)}}
    \cup {<<>>}

MainProcs ==
    {Proc(pr, l, rc, out, err) :
        pr \in {"ok", "FileNotFoundError"}, l \in BOOLEAN, rc \in {0, 2},
        out \in MainStdouts, err \in {<<>>, S_warn}}

----------------------------------------------------------------------------
(* Specifications.                                                         *)

\* A run of main.
Init ==
    /\ mode \in {"html", "js", "all"}
    /\ json_flag \in BOOLEAN
    /\ spec_file \in
          {[readable |-> FALSE, spec |-> SpecDict(PyNone, <<>>, <<>>, <<>>)]}
          \cup {[readable |-> TRUE, spec |-> sp] : sp \in MainSpecs}
    /\ html_file \in
          {[readable |-> FALSE, text |-> HtmlText(FALSE, <<>>)]}
          \cup {[readable |-> TRUE, text |-> t] : t \in MainTexts}
    /\ proc \in MainProcs
    /\ pc = "read_spec"
    /\ r = NoCall
    /\ results = EmptyMap
    /\ overall_ok = TRUE
    /\ exit_code = NotExited
    /\ calls = <<>>

Spec == Init /\ [][Next]_vars

\* check_html applied to a spec and a document.
CallCheckHtml ==
    /\ pc = "call_check_html"
    /\ r' = check_html(spec_file.spec, html_file.text)
    /\ pc' = "returned"
    /\ UNCHANGED <<mode, json_flag, spec_file, html_file, proc, results, overall_ok,
                   exit_code, calls>>

InitHtml ==
    /\ mode = "html"
    /\ json_flag = FALSE
    /\ spec_file \in {[readable |-> TRUE, spec |-> sp] : sp \in HtmlSpecs}
    /\ html_file \in {[readable |-> TRUE, text |-> t] : t \in HtmlTexts}
    /\ proc = Proc("ok", TRUE, 0, <<>>, <<>>)
    /\ pc = "call_check_html"
    /\ r = NoCall
    /\ results = EmptyMap
    /\ overall_ok = TRUE
    /\ exit_code = NotExited
    /\ calls = <<>>

SpecHtml == InitHtml /\ [][CallCheckHtml]_vars

\* check_js applied to an environment.
CallCheckJs ==
    /\ pc = "call_check_js"
    /\ r' = check_js(proc).res
    /\ calls' = check_js(proc).calls
    /\ pc' = "returned"
    /\ UNCHANGED <<mode, json_flag, spec_file, html_file, proc, results, overall_ok,
                   exit_code>>

InitJs ==
    /\ mode = "js"
    /\ json_flag = FALSE
    /\ spec_file = [readable |-> TRUE, spec |-> SpecDict(PyStr(S_abi1), <<>>, <<>>, <<>>)]
    /\ html_file = [readable |-> TRUE, text |-> HtmlText(FALSE, <<>>)]
    /\ proc \in Procs
    /\ pc = "call_check_js"
    /\ r = NoCall
    /\ results = EmptyMap
    /\ overall_ok = TRUE
    /\ exit_code = NotExited
    /\ calls = <<>>

SpecJs == InitJs /\ [][CallCheckJs]_vars

----------------------------------------------------------------------------
(* Properties.                                                             *)

Terminal == pc \in {"exited", "crashed"}

\* The check kinds a mode asks for.
KindsOf(m) ==
    CASE m = "html" -> {"html"}
      [] m = "js"   -> {"js"}
      [] m = "all"  -> {"html", "js"}

Logged(what) == \E i \in 1..Len(calls) : calls[i] = what

\* name occurs in line as a contiguous run of pieces
Contains(line, name) ==
    \E k \in 0..(Len(line) - Len(name)) : SubSeq(line, k + 1, k + Len(name)) = name

\* The elements of the document whose id attribute is exactly idv.
Occurrences(text, idv) ==
    Cardinality({i \in 1..Len(text.elems) :
        /\ HasAttr(fromstring(text)[i], S_id)
        /\ AttrValue(fromstring(text)[i], S_id) = idv})

HasNonEmptyString(errors) ==
    /\ errors.t = "list"
    /\ \E i \in 1..Len(errors.xs) : errors.xs[i].t = "str" /\ Len(errors.xs[i].s) > 0

\* C1: a spec file that loads and whose abi is not 'sfwa-abi-1' (absent
\* included) ends the run with exit status 2 after the spec file alone was
\* opened: the document is never read and neither checker is called, whatever
\* the mode and the document.
C1_UnsupportedAbiAborts ==
    (spec_file.readable /\ spec_file.spec.abi # PyStr(S_abi1)) =>
        /\ pc \in {"read_spec", "check_abi", "exited"}
        /\ \A i \in 1..Len(calls) : calls[i] = "open spec"
        /\ r = NoCall
        /\ results = EmptyMap
        /\ (pc = "exited" => exit_code = 2)
        /\ (pc # "exited" => exit_code = NotExited)

C1_Witness ==
    /\ pc = "exited"
    /\ exit_code = 2
    /\ spec_file.readable
    /\ spec_file.spec.abi = PyNone
    /\ ~html_file.readable
    /\ mode = "all"
    /\ calls = <<"open spec">>

\* C2: once the run is over and every checker called has returned its
\* CheckResult, the report holds exactly the results of the mode's check kinds,
\* only those checks were run, and the exit status is 0 when every included
\* result is ok and 1 otherwise.
C2_ExitIsAndOfIncluded ==
    (Terminal /\ Logged("open html") /\ html_file.readable /\ r.kind # "raised") =>
        /\ DOMAIN results = KindsOf(mode)
        /\ Logged("check_html") <=> mode \in {"html", "all"}
        /\ Logged("check_js") <=> mode \in {"js", "all"}
        /\ exit_code = IF \A k \in DOMAIN results : results[k].ok THEN 0 ELSE 1

\* C3: a run that asks for the behavioral check on a system without node ends
\* with exit status 2.
C3_MissingNodeExits2 ==
    (/\ Terminal /\ mode \in {"js", "all"} /\ Logged("node --version")
     /\ proc.probe = "FileNotFoundError") =>
        exit_code = 2

\* C4: a CheckResult with ok false holds a list of errors with at least one
\* non-empty string in it.
C4_FailureHasErrorText ==
    (r.kind = "returned" /\ ~r.ok) => HasNonEmptyString(r.errors)

\* C5: in mode all, once the spec and the document are read, the run ends
\* with both an html and a js result in the report, and no checker raises.
C5_BothResultsReported ==
    (mode = "all" /\ Logged("open html") /\ html_file.readable) =>
        /\ r.kind # "raised"
        /\ Terminal => DOMAIN results = {"html", "js"}

\* C6: when the external checker exits with status 2, check_js returns ok
\* false, one error holding the standard error text if there is any and the
\* standard output text otherwise, and empty details; the output is not parsed.
C6_InternalErrorResult ==
    (pc = "returned" /\ proc.probe = "ok" /\ proc.launch_ok /\ proc.returncode = 2) =>
        /\ r = Returned(FALSE,
                        PyList(<<PyStr(<<"JS harness internal error:\n">>
                                       \o (IF proc.stderr # <<>> THEN proc.stderr
                                           ELSE proc.stdout))>>),
                        EmptyDict)
        /\ ~Logged("json.loads")

C6_Witness ==
    /\ pc = "returned"
    /\ proc.probe = "ok" /\ proc.launch_ok /\ proc.returncode = 2
    /\ proc.stderr = <<>>
    /\ proc.stdout = JsonTexts[PyDict([ok |-> PyBool(TRUE)])] \o <<"\n">>
    /\ r.kind = "returned" /\ ~r.ok
    /\ Contains(r.errors.xs[1].s, proc.stdout)

\* C7: when the version probe fails, check_js returns ok false with one error
\* naming node as not available and empty details, and only the probe was
\* run: the external checker is not launched.
C7_ProbeFailureResult ==
    (pc = "returned" /\ proc.probe # "ok") =>
        /\ r = Returned(FALSE,
                        PyList(<<PyStr(<<"Node.js not available: ", proc.probe>>)>>),
                        EmptyDict)
        /\ calls = <<"node --version">>

C7_Witness ==
    /\ pc = "returned"
    /\ proc.probe = "CalledProcessError"
    /\ proc.launch_ok /\ proc.returncode = 0
    /\ proc.stdout = JsonTexts[PyDict([ok |-> PyBool(TRUE)])] \o <<"\n">>
    /\ r.kind = "returned" /\ ~r.ok
    /\ calls = <<"node --version">>

\* C8: for a standard output that is a JSON object without an errors field,
\* from a checker that did not exit with 2, the result's ok is the truth value
\* of the payload's ok (false when absent), its errors are empty when ok and
\* the one generic error when not ok.
C8_PayloadWithoutErrors ==
    (/\ pc = "returned" /\ proc.probe = "ok" /\ proc.launch_ok /\ proc.returncode # 2
     /\ IsJson(proc.stdout)
     /\ JsonLoads(proc.stdout).t = "dict"
     /\ "errors" \notin DOMAIN JsonLoads(proc.stdout).m) =>
        /\ r.kind = "returned"
        /\ r.ok = ("ok" \in DOMAIN JsonLoads(proc.stdout).m
                   /\ Truthy(JsonLoads(proc.stdout).m["ok"]))
        /\ r.ok => r.errors = PyList(<<>>)
        /\ ~r.ok => r.errors = PyList(<<PyStr(<<"JS compliance failed.">>)>>)

\* C9: for a document that parses, a required id with no element in the
\* document makes check_html return ok false with the id's name in exactly one
\* of the error lines.
C9_MissingIdInOneLine ==
    (pc = "returned" /\ ~ParseFails(html_file.text)) =>
        \A i \in 1..Len(spec_file.spec.ids) :
            Occurrences(html_file.text, spec_file.spec.ids[i]) = 0 =>
                /\ r.kind = "returned"
                /\ ~r.ok
                /\ Cardinality({j \in 1..Len(r.errors.xs) :
                       Contains(r.errors.xs[j].s, spec_file.spec.ids[i])}) = 1

\* What C10 requires of the document, read off the parsed elements.
SomeElem(text, P(_)) == \E i \in 1..Len(text.elems) : P(fromstring(text)[i])

SelectorTargetExists(text, sel) ==
    LET IsTitle(e) == e.tag = S_title
        IsCharsetMeta(e) == e.tag = S_meta /\ HasAttr(e, S_charset)
        IsViewportMeta(e) ==
            /\ e.tag = S_meta
            /\ HasAttr(e, S_name)
            /\ Translate(AttrValue(e, S_name), UpperLetters, LowerLetters) = S_viewport
    IN CASE sel = Sel_title -> SomeElem(text, IsTitle)
         [] sel = Sel_charset -> SomeElem(text, IsCharsetMeta)
         [] sel \in {Sel_viewport_sq, Sel_viewport_dq} -> SomeElem(text, IsViewportMeta)
         [] OTHER -> TRUE

ValuePresent(text, name, v) ==
    LET Carries(e) == HasAttr(e, name) /\ AttrValue(e, name) = v
    IN SomeElem(text, Carries)

Compliant(spec, text) ==
    /\ \A i \in 1..Len(spec.ids) : Occurrences(text, spec.ids[i]) = 1
    /\ \A i \in 1..Len(spec.selectors) : SelectorTargetExists(text, Strip(spec.selectors[i]))
    /\ \A i \in 1..Len(spec.dataAttributes) :
          (spec.dataAttributes[i].name # <<>> /\ spec.dataAttributes[i].values # <<>>) =>
              \A k \in 1..Len(spec.dataAttributes[i].values) :
                  ValuePresent(text, spec.dataAttributes[i].name,
                               spec.dataAttributes[i].values[k])

SeqRange(q) == {q[i] : i \in 1..Len(q)}

\* C10: for a document that parses, check_html returns ok true with no errors
\* exactly when every required id has one element, every recognized selector
\* has its target and every value of every entry with a name and values is
\* present; selectors that are not recognized are listed as unsupported only,
\* and entries without a name or without values are neither enforced nor
\* missing.
C10_OkIffCompliant ==
    (pc = "returned" /\ ~ParseFails(html_file.text)) =>
        /\ r.kind = "returned"
        /\ (r.ok /\ r.errors = PyList(<<>>)) <=> Compliant(spec_file.spec, html_file.text)
        /\ r.ok <=> r.errors = PyList(<<>>)
        /\ SeqRange(r.details.m.requiredSelectors.unsupported) =
              {Strip(sel) : sel \in {q \in SeqRange(spec_file.spec.selectors) :
                                        ~IsRecognizedSelector(Strip(q))}}
        /\ \A i \in 1..Len(spec_file.spec.dataAttributes) :
              (spec_file.spec.dataAttributes[i].name = <<>>
               \/ spec_file.spec.dataAttributes[i].values = <<>>) =>
                  \A t \in SeqRange(r.details.m.dataAttributes.enforced)
                          \cup SeqRange(r.details.m.dataAttributes.missing) :
                      \E pv \in SeqRange(EnforcedPairs(spec_file.spec.dataAttributes)) :
                          t = PairText(pv)

\* What C9 and C10 say of the calls that return.
ReturnedHtml_Holds ==
    (pc = "returned" /\ r.kind = "raised") \/ (C9_MissingIdInOneLine /\ C10_OkIffCompliant)

====
